---- MODULE Spec2Model ----
(***************************************************************************)
(* pdfscan: the command line search (src/src/main.rs), the search panel   *)
(* (src/src/gui/search_panel.rs), the viewer (src/src/gui/pdf_viewer.rs).  *)
(*                                                                         *)
(* Spec        the command line run: main spawns one thread per directory, *)
(*             each runs search_pdf_files, main joins, prints and zips.    *)
(* SpecArgs    the option loop of main.                                    *)
(* SpecZip     zip_files.                                                  *)
(* SpecText    SearchPanel::search_in_text and search_phrase_in_pdf        *)
(*             applied to one text, byte for byte as Rust's str does.      *)
(* SpecGui     the directory search of SearchPanel::perform_search.        *)
(* SpecSearch  either program's search: Spec or SpecGui.                   *)
(* SpecFair    Spec with weakly fair threads.                              *)
(* SpecWalk    SpecSearch over trees whose walk yields errors.             *)
(* SpecPanel   either search scope of the panel: SpecText or SpecGui.      *)
(* SpecView    PdfViewer: load_pdf, its threads, process_loaded_document   *)
(*             and the page buttons of show.                               *)
(* SpecViewFair  SpecView with fair load threads and repeated frames.      *)
(***************************************************************************)
EXTENDS Integers, Sequences, FiniteSets

VARIABLES
    \* ---- command line run (main.rs) ----
    fileKind,        \* the file system: what each directory entry is
    search_phrase,   \* main.rs:88
    directories,     \* main.rs:89, the roots after option parsing
    results,         \* main.rs:133, the Vec inside Arc<Mutex<..>>
    mutex,           \* who holds the Mutex: Free, ByMain or ByWorker(w)
    mainPc,          \* main's position
    spawned,         \* handles pushed so far (main.rs:136-145)
    joined,          \* handles joined so far (main.rs:147-149)
    wpc,             \* each worker thread's position
    widx,            \* each worker's position in its directory walk
    pdf_files,       \* each worker's local Vec (main.rs:23)
    zip,             \* main.rs:92
    printed,         \* the paths main has written to standard output
    archived,        \* the paths of the archive zip_files built, <<>> before
    \* ---- option parsing (main.rs:91-131) ----
    args,            \* env::args() without the program name: args[k] is Rust's args[k]
    argi,            \* main.rs:93, the index i
    argPc,           \* "idle", "parse", "defaults", "search", "exit", "panic"
    home_dir,        \* what dirs::home_dir() returns: <<dir>> or <<>> for None
    \* ---- text search (search_panel.rs) ----
    text,            \* the text searched, a sequence of characters
    search_query,    \* SearchPanel.search_query
    case_sensitive,  \* SearchPanel.case_sensitive
    tpc,             \* search_in_text's position: "idle", "scan", "done", "panic";
                     \* "returned" once perform_search has taken its matches
    start,           \* search_panel.rs:265
    matches,         \* search_panel.rs:251
    dirFound,        \* result of search_phrase_in_pdf on the same text, or "none"
    \* ---- directory search of the search panel (search_panel.rs:136-247) ----
    directory_path,  \* SearchPanel.directory_path
    create_zip,      \* SearchPanel.create_zip
    is_searching,    \* SearchPanel.is_searching
    search_results,  \* SearchPanel.search_results: [file_path, match_count, matches]
    shared,          \* search_panel.rs:164, the Vec inside Arc<Mutex<..>>
    gmutex,          \* who holds that Mutex: Free, ByMain or ByWorker(1)
    gpc,             \* perform_search's position
    gwpc,            \* the background thread's position
    gwidx,           \* its position in the directory walk
    matching_pdfs,   \* search_panel.rs:170 (results of search_files_in_directory)
    pdf_paths,       \* search_panel.rs:234, the paths handed to zip_files
    zipLog,          \* what create_zip_with_results logged: "none", "created", "error"
    \* ---- zip_files (main.rs:64-85) ----
    files,           \* the paths to archive, each a sequence of components
    readable,        \* per path: "ok", "noopen" (open fails), "noread" (read fails)
    content,         \* per path: the bytes of the file
    creatable,       \* whether File::create of the output succeeds
    zpc,             \* zip_files' position
    zidx,            \* the index of the file the loop is at
    entries,         \* the archive: its entries [name, data] in order
    finished,        \* whether zip.finish() has been called
    zret,            \* the value returned, NoReturn before the return
    \* ---- PdfViewer (gui/pdf_viewer.rs) ----
    pdfs,            \* the pdf files on disk: what each one is (PdfKinds)
    current_pdf_path, \* PdfViewer.current_pdf_path, NoDoc for None
    document,        \* PdfViewer.document: the file it was loaded from, or NoDoc
    poppler_document, \* PdfViewer.poppler_document, likewise
    current_page,    \* PdfViewer.current_page
    total_pages,     \* PdfViewer.total_pages
    pages,           \* the keys of PdfViewer.pages
    page_textures,   \* the keys of PdfViewer.page_textures
    text_data,       \* the file whose text text_data holds, NoDoc for ""
    loading,         \* PdfViewer.loading
    document_loaded, \* the slot the load thread fills, NoDoc for None
    view_mode,       \* PdfViewer.view_mode
    loads,           \* the number of load_pdf calls so far
    lfile,           \* per load thread: the file it loads (path_clone)
    lpc              \* per load thread: its position

cliVars == <<fileKind, search_phrase, directories, results, mutex, mainPc,
             spawned, joined, wpc, widx, pdf_files, zip, printed, archived>>
textVars == <<text, search_query, case_sensitive, tpc, start, matches, dirFound>>
argVars == <<args, argi, argPc, home_dir>>
guiVars == <<directory_path, create_zip, is_searching, search_results, shared,
             gmutex, gpc, gwpc, gwidx, matching_pdfs, pdf_paths, zipLog>>
zipVars == <<files, readable, content, creatable, zpc, zidx, entries,
             finished, zret>>
viewVars == <<pdfs, current_pdf_path, document, poppler_document, current_page,
              total_pages, pages, page_textures, text_data, loading,
              document_loaded, view_mode, loads, lfile, lpc>>
vars == <<cliVars, textVars, argVars, guiVars, zipVars, viewVars>>
\* What no step of the search changes: the file system and the options.
cliFixed == <<fileKind, search_phrase, directories, zip>>
\* What the actions of one part leave alone.
notCli == <<textVars, argVars, guiVars, zipVars, viewVars>>
notText == <<cliVars, argVars, guiVars, zipVars, viewVars>>
notGui == <<cliVars, textVars, argVars, zipVars, viewVars>>
notView == <<cliVars, textVars, argVars, guiVars, zipVars>>
notZip == <<cliVars, textVars, argVars, guiVars, viewVars>>

(***************************************************************************)
(* Bounds of the model.                                                    *)
(***************************************************************************)
MaxRoots == 2

Range(s) == {s[i] : i \in DOMAIN s}
Count(x, s) == Cardinality({i \in DOMAIN s : s[i] = x})
SeqsUpTo(S, n) == UNION {[1..k -> S] : k \in 0..n}

(***************************************************************************)
(* The file system the run sees: directory A with one entry and the        *)
(* subdirectory A/S with one entry, and directory B with one entry.  An    *)
(* entry is named by its path; what it is (fileKind) is chosen at Init.    *)
(* X is a root that does not exist or cannot be read.                      *)
(***************************************************************************)
Dirs == {"A", "A/S", "B", "X"}
Files == {"A/f1", "A/S/f2", "B/f3"}

\* The entries WalkDir::new(root) yields, in its (fixed) order.  WalkDir
\* descends recursively: root A also yields the entries of A/S.  For root X
\* it yields an Err only, which filter_map(|e| e.ok()) drops (main.rs:24).
Walk(root) ==
    CASE root = "A" -> <<"A/f1", "A/S/f2">>
      [] root = "A/S" -> <<"A/S/f2">>
      [] root = "B" -> <<"B/f3">>
      [] root = "X" -> <<>>
Under(root) == Range(Walk(root))

\* What an entry is:
\*   other    not a regular file with extension "pdf"
\*   hit      a pdf whose bytes are UTF-8 and contain the phrase
\*   miss     a pdf whose bytes are UTF-8 and do not contain the phrase
\*   unread   a pdf that cannot be read or is not UTF-8
\*   badname  a pdf whose path is not valid UTF-8 (content irrelevant)
\*   walkerr  an Err of the walk: an entry WalkDir could not read
Kinds == {"other", "hit", "miss", "unread", "badname"}
WalkKinds == Kinds \cup {"walkerr"}
Phrases == {"", "hello"}

IsCandidate(f) == fileKind[f] \notin {"other", "walkerr"}

\* search_phrase_in_pdf of main.rs: "err" when read or from_utf8 fails.
search_phrase_in_pdf(f) ==
    CASE fileKind[f] = "hit" -> "true"
      [] fileKind[f] = "miss" -> "false"
      [] OTHER -> "err"

\* The mutant skips the empty-phrase shortcut and always reads the file.
EntryOutcomeNoShortcut(f) ==
    IF ~IsCandidate(f) THEN "skip"
    ELSE IF fileKind[f] = "badname" THEN "panic"
    ELSE IF search_phrase_in_pdf(f) = "true" THEN "push"
    ELSE "skip"

\* The mutant unwraps the entries of the walk: an Err ends the thread.
EntryOutcomeErrAborts(f) ==
    IF fileKind[f] = "walkerr" THEN "panic"
    ELSE IF ~IsCandidate(f) THEN "skip"
    ELSE IF search_phrase = "" THEN "push"
    ELSE IF fileKind[f] = "badname" THEN "panic"
    ELSE IF search_phrase_in_pdf(f) = "true" THEN "push"
    ELSE "skip"

\* One iteration of the loop of search_pdf_files on entry f.
EntryOutcome(f) ==
    \* filter_map(|e| e.ok()) drops an Err of the walk (main.rs:25)
    IF fileKind[f] = "walkerr" THEN "skip"
    ELSE IF ~IsCandidate(f) THEN "skip"
    ELSE IF search_phrase = "" THEN "push"
    \* path.to_str().unwrap() panics on a path that is not UTF-8
    ELSE IF fileKind[f] = "badname" THEN "panic"
    ELSE IF search_phrase_in_pdf(f) = "true" THEN "push"
    ELSE "skip"

Workers == 1..MaxRoots

\* The Mutex around results: its holder.
Free == <<>>
ByMain == <<"main">>
ByWorker(w) == <<"worker", w>>

\* main before the spawn loop, for a file system of the given kinds of
\* entries and one of the given lists of roots.
CliStart(kinds, roots) ==
    /\ fileKind \in [Files -> kinds]
    /\ search_phrase \in Phrases
    /\ directories \in roots
    /\ results = <<>>
    /\ mutex = Free
    /\ mainPc = "spawn"
    /\ spawned = 0
    /\ joined = 0
    /\ wpc = [w \in Workers |-> "idle"]
    /\ widx = [w \in Workers |-> 1]
    /\ pdf_files = [w \in Workers |-> <<>>]
    /\ zip \in BOOLEAN
    /\ printed = <<>>
    /\ archived = <<>>

InitCli == CliStart(Kinds, SeqsUpTo(Dirs, MaxRoots) \ {<<>>})

\* main.rs:136-145: spawn the next worker.
Spawn ==
    /\ mainPc = "spawn"
    /\ spawned < Len(directories)
    /\ spawned' = spawned + 1
    /\ wpc' = [wpc EXCEPT ![spawned + 1] = "walk"]
    /\ UNCHANGED <<notCli, cliFixed, printed, archived, results, mutex, mainPc,
                   joined, widx, pdf_files>>

SpawnDone ==
    /\ mainPc = "spawn"
    /\ spawned = Len(directories)
    /\ mainPc' = "join"
    /\ UNCHANGED <<notCli, cliFixed, printed, archived, results, mutex,
                   spawned, joined, wpc, widx, pdf_files>>

Terminated(w) == wpc[w] \in {"done", "panicked"}

\* The mutant does not wait for the thread.
JoinNoWait ==
    /\ mainPc = "join"
    /\ joined < Len(directories)
    /\ joined' = joined + 1
    /\ UNCHANGED <<notCli, cliFixed, printed, archived, results, mutex, mainPc,
                   spawned, wpc, widx, pdf_files>>

\* The mutant unwraps the Result of join: main panics with the worker.
JoinUnwrap ==
    /\ mainPc = "join"
    /\ joined < Len(directories)
    /\ Terminated(joined + 1)
    /\ IF wpc[joined + 1] = "panicked"
       THEN mainPc' = "joinPanic" /\ UNCHANGED joined
       ELSE joined' = joined + 1 /\ UNCHANGED mainPc
    /\ UNCHANGED <<notCli, cliFixed, printed, archived, results, mutex,
                   spawned, wpc, widx, pdf_files>>

\* main.rs:147-149: handle.join() returns when the thread has ended, by
\* returning or by panicking; the Result is dropped.
Join ==
    /\ mainPc = "join"
    /\ joined < Len(directories)
    /\ Terminated(joined + 1)
    /\ joined' = joined + 1
    /\ UNCHANGED <<notCli, cliFixed, printed, archived, results, mutex, mainPc,
                   spawned, wpc, widx, pdf_files>>

\* The mutant goes on to read the results without joining the handles.
MainLockEarly ==
    /\ mainPc = "join"
    /\ mutex = Free
    /\ mutex' = ByMain
    /\ mainPc' = "print"
    /\ UNCHANGED <<notCli, cliFixed, printed, archived, results,
                   spawned, joined, wpc, widx, pdf_files>>

\* main.rs:151: results.lock().unwrap()
MainLock ==
    /\ mainPc = "join"
    /\ joined = Len(directories)
    /\ mutex = Free
    /\ mutex' = ByMain
    /\ mainPc' = "print"
    /\ UNCHANGED <<notCli, cliFixed, printed, archived, results,
                   spawned, joined, wpc, widx, pdf_files>>

\* The mutant prints the results only after the archive is built.
PrintAfterZip ==
    /\ mainPc = "print"
    /\ printed' = IF zip THEN printed ELSE results
    /\ mainPc' = IF zip THEN "zip" ELSE "done"
    /\ mutex' = IF zip THEN ByMain ELSE Free
    /\ UNCHANGED <<notCli, cliFixed, archived, results,
                   spawned, joined, wpc, widx, pdf_files>>

\* main.rs:152-156: print every result; without -z main returns and the
\* guard is dropped, with -z it goes on to the archive holding the guard.
PrintResults ==
    /\ mainPc = "print"
    /\ printed' = results
    /\ mainPc' = IF zip THEN "zip" ELSE "done"
    /\ mutex' = IF zip THEN ByMain ELSE Free
    /\ UNCHANGED <<notCli, cliFixed, archived, results,
                   spawned, joined, wpc, widx, pdf_files>>

\* Whether zip_files can open the path main hands it.  The path of a
\* "badname" entry went through to_string_lossy (main.rs:32), which replaces
\* the bytes that are not UTF-8: the string names no file.
Openable(f) == fileKind[f] # "badname"

\* main.rs:156-166: zip_files(..).expect(..).  The archive fails when the
\* output cannot be created or a listed file cannot be opened or read, which
\* may happen to any file by the time it is archived; expect then panics.
ZipResults ==
    /\ mainPc = "zip"
    /\ \E ok \in BOOLEAN :
        /\ ok => \A f \in Range(results) : Openable(f)
        /\ IF ok
           THEN mainPc' = "done" /\ archived' = results
           ELSE mainPc' = "zipPanic" /\ UNCHANGED archived
    /\ mutex' = Free
    /\ UNCHANGED <<notCli, cliFixed, printed, results,
                   spawned, joined, wpc, widx, pdf_files>>

\* main.rs:25-49: one entry of the walk.
WalkEntry(w) ==
    /\ wpc[w] = "walk"
    /\ widx[w] <= Len(Walk(directories[w]))
    /\ LET f == Walk(directories[w])[widx[w]]
           o == EntryOutcome(f)
       IN  /\ wpc' = [wpc EXCEPT ![w] = IF o = "panic" THEN "panicked" ELSE "walk"]
           /\ pdf_files' = [pdf_files EXCEPT ![w] =
                               IF o = "push" THEN Append(@, f) ELSE @]
           /\ widx' = [widx EXCEPT ![w] = @ + 1]
    /\ UNCHANGED <<notCli, cliFixed, printed, archived, results, mutex, mainPc,
                   spawned, joined>>

\* The mutant enters the critical section without waiting for the Mutex.
WorkerLockNoWait(w) ==
    /\ wpc[w] = "walk"
    /\ widx[w] > Len(Walk(directories[w]))
    /\ mutex' = ByWorker(w)
    /\ wpc' = [wpc EXCEPT ![w] = "extend"]
    /\ UNCHANGED <<notCli, cliFixed, printed, archived, results, mainPc,
                   spawned, joined, widx, pdf_files>>

\* main.rs:51: the walk is over; results.lock().unwrap() blocks until the
\* Mutex is free.  No thread panics while holding it, so it is never poisoned.
WorkerLock(w) ==
    /\ wpc[w] = "walk"
    /\ widx[w] > Len(Walk(directories[w]))
    /\ mutex = Free
    /\ mutex' = ByWorker(w)
    /\ wpc' = [wpc EXCEPT ![w] = "extend"]
    /\ UNCHANGED <<notCli, cliFixed, printed, archived, results, mainPc,
                   spawned, joined, widx, pdf_files>>

\* The mutant stores the local list instead of appending it.
ExtendOverwrite(w) ==
    /\ wpc[w] = "extend"
    /\ results' = pdf_files[w]
    /\ mutex' = Free
    /\ wpc' = [wpc EXCEPT ![w] = "done"]
    /\ UNCHANGED <<notCli, cliFixed, printed, archived, mainPc,
                   spawned, joined, widx, pdf_files>>

\* main.rs:52-53: results.extend(pdf_files); the guard is dropped on return.
WorkerExtend(w) ==
    /\ wpc[w] = "extend"
    /\ results' = results \o pdf_files[w]
    /\ mutex' = Free
    /\ wpc' = [wpc EXCEPT ![w] = "done"]
    /\ UNCHANGED <<notCli, cliFixed, printed, archived, mainPc,
                   spawned, joined, widx, pdf_files>>

search_pdf_files(w) ==
    \/ WalkEntry(w)
    \/ WorkerLock(w)
    \/ WorkerExtend(w)

main ==
    \/ Spawn
    \/ SpawnDone
    \/ Join
    \/ MainLock
    \/ PrintResults
    \/ ZipResults

(***************************************************************************)
(* Text search.  A Rust str is a sequence of characters stored as UTF-8     *)
(* bytes; len(), find() and the slice s[a..b] all count bytes.              *)
(***************************************************************************)
MaxHead == 2
MaxQuery == 2
ContextRadius == 40

\* The characters of the model and their UTF-8 encodings:
\*   a U+0061, A U+0041, k U+006B, x U+0078, eacute U+00E9, kelvin U+212A
Utf8(c) ==
    CASE c = "a" -> <<97>>
      [] c = "A" -> <<65>>
      [] c = "k" -> <<107>>
      [] c = "x" -> <<120>>
      [] c = "eacute" -> <<195, 169>>
      [] c = "kelvin" -> <<226, 132, 170>>

\* char::to_lowercase: U+212A KELVIN SIGN lowercases to U+006B.
Lower(c) ==
    CASE c = "A" -> <<"a">>
      [] c = "kelvin" -> <<"k">>
      [] OTHER -> <<c>>

RECURSIVE Bytes(_)
\* The bytes of a str.
Bytes(s) == IF s = <<>> THEN <<>> ELSE Utf8(Head(s)) \o Bytes(Tail(s))

RECURSIVE to_lowercase(_)
\* str::to_lowercase, character by character.
to_lowercase(s) ==
    IF s = <<>> THEN <<>> ELSE Lower(Head(s)) \o to_lowercase(Tail(s))

TextChars == {"a", "A", "eacute", "kelvin"}
Pad(n) == [i \in 1..n |-> "x"]
PadLens == {0, ContextRadius - 1, ContextRadius}
Texts ==
    {h \o Pad(n) \o t :
        h \in SeqsUpTo(TextChars, MaxHead), n \in PadLens,
        t \in SeqsUpTo(TextChars, 1)}
Queries == SeqsUpTo(TextChars, MaxQuery) \ {<<>>}

\* str::is_char_boundary: 0 and len are boundaries, an index past len is
\* not, and inside the str a byte is a boundary unless it is 10xxxxxx.
is_char_boundary(b, i) ==
    \/ i = 0
    \/ i = Len(b)
    \/ /\ i < Len(b)
       /\ b[i + 1] \notin 128..191

\* Whether the slice b[from..to] is taken without a panic.
SliceOk(b, from, to) ==
    /\ from <= to
    /\ to <= Len(b)
    /\ is_char_boundary(b, from)
    /\ is_char_boundary(b, to)

StartsAt(hay, needle, i) ==
    /\ i + Len(needle) <= Len(hay)
    /\ SubSeq(hay, i + 1, i + Len(needle)) = needle

None == -1
\* hay[from..].find(needle), as an offset into hay; None when absent.
Find(hay, needle, from) ==
    LET hits == {i \in from..Len(hay) : StartsAt(hay, needle, i)}
    IN  IF hits = {} THEN None
        ELSE CHOOSE i \in hits : \A j \in hits : i <= j

\* str::contains
Contains(hay, needle) == Find(hay, needle, 0) # None

Min(a, b) == IF a <= b THEN a ELSE b
\* usize::saturating_sub
saturating_sub(a, b) == IF a >= b THEN a - b ELSE 0

\* search_panel.rs:252-262
Query == IF case_sensitive THEN Bytes(search_query)
         ELSE Bytes(to_lowercase(search_query))
SearchText == IF case_sensitive THEN Bytes(text) ELSE Bytes(to_lowercase(text))

\* The mutant does not advance, as a query of length 0 would make the code.
NextStartNoAdvance(actual_pos) == actual_pos

\* The mutant advances by one byte, so matches may overlap.
NextStartByOne(actual_pos) == actual_pos + 1

\* search_panel.rs:279
NextStart(actual_pos) == actual_pos + Len(Query)

\* search_panel.rs:264-282: one pass of the while-let loop, or the return
\* when find gives None.  The context is sliced out of the original text
\* with offsets found in search_text; a bad slice panics.
search_in_text ==
    /\ tpc = "scan"
    /\ LET pos == Find(SearchText, Query, start)
           context_start == saturating_sub(pos, ContextRadius)
           context_end == Min(pos + Len(Query) + ContextRadius, Len(Bytes(text)))
       IN  IF pos = None
           THEN /\ tpc' = "done"
                /\ UNCHANGED <<start, matches>>
           ELSE IF ~SliceOk(Bytes(text), context_start, context_end)
           THEN /\ tpc' = "panic"
                /\ UNCHANGED <<start, matches>>
           ELSE /\ matches' = Append(matches,
                       [text |-> SubSeq(Bytes(text), context_start + 1, context_end),
                        position |-> pos])
                /\ start' = NextStart(pos)
                /\ tpc' = "scan"
    /\ UNCHANGED <<notText, text, search_query, case_sensitive, dirFound>>

\* search_panel.rs:481-487: search_phrase_in_pdf on a file whose extracted
\* text is text: Ok(text.contains(search_phrase)).
gui_search_phrase_in_pdf ==
    /\ dirFound = "none"
    /\ dirFound' = IF Contains(Bytes(text), Bytes(search_query))
                   THEN "true" ELSE "false"
    /\ UNCHANGED <<notText, text, search_query, case_sensitive, tpc, start, matches>>

\* The mutant stores a result for the document whatever was found.
PushWithoutCheck ==
    /\ tpc = "done"
    /\ search_results' = Append(search_results,
            [file_path |-> "doc", match_count |-> Len(matches), matches |-> matches])
    /\ tpc' = "returned"
    /\ UNCHANGED <<cliVars, argVars, zipVars, viewVars, text, search_query, case_sensitive,
                   start, matches, dirFound, directory_path, create_zip,
                   is_searching, shared, gmutex, gpc, gwpc, gwidx,
                   matching_pdfs, pdf_paths, zipLog>>

\* search_panel.rs:144-155: perform_search, current document: one result
\* for the document when search_in_text returned at least one match.
PushDocumentResult ==
    /\ tpc = "done"
    /\ search_results' =
          IF matches # <<>>
          THEN Append(search_results,
                  [file_path |-> "doc", match_count |-> Len(matches),
                   matches |-> matches])
          ELSE search_results
    /\ tpc' = "returned"
    /\ UNCHANGED <<cliVars, argVars, zipVars, viewVars, text, search_query, case_sensitive,
                   start, matches, dirFound, directory_path, create_zip,
                   is_searching, shared, gmutex, gpc, gwpc, gwidx,
                   matching_pdfs, pdf_paths, zipLog>>

TextIdle ==
    /\ text = <<>>
    /\ search_query = <<>>
    /\ case_sensitive = FALSE
    /\ tpc = "idle"
    /\ start = 0
    /\ matches = <<>>
    /\ dirFound = "none"

NoPath == <<>>
GuiIdle ==
    /\ directory_path = NoPath
    /\ create_zip = FALSE
    /\ is_searching = FALSE
    /\ search_results = <<>>
    /\ shared = <<>>
    /\ gmutex = Free
    /\ gpc = "idle"
    /\ gwpc = "idle"
    /\ gwidx = 1
    /\ matching_pdfs = <<>>
    /\ pdf_paths = <<>>
    /\ zipLog = "none"

\* pdf_viewer.rs:52-71: PdfViewer::new.
NoDoc == "none"
MaxLoads == 2
Loads == 1..MaxLoads
ViewIdle ==
    /\ pdfs = <<>>
    /\ current_pdf_path = NoDoc
    /\ document = NoDoc
    /\ poppler_document = NoDoc
    /\ current_page = 0
    /\ total_pages = 0
    /\ pages = {}
    /\ page_textures = {}
    /\ text_data = NoDoc
    /\ loading = FALSE
    /\ document_loaded = NoDoc
    /\ view_mode = "Rendered"
    /\ loads = 0
    /\ lfile = [t \in Loads |-> NoDoc]
    /\ lpc = [t \in Loads |-> "idle"]

NoReturn == [tag |-> "none", variant |-> "none", paths |-> {}]
ZipIdle ==
    /\ files = <<>>
    /\ readable = <<>>
    /\ content = <<>>
    /\ creatable = TRUE
    /\ zpc = "idle"
    /\ zidx = 1
    /\ entries = <<>>
    /\ finished = FALSE
    /\ zret = NoReturn

CliIdle ==
    /\ fileKind = [f \in Files |-> "other"]
    /\ search_phrase = ""
    /\ directories = <<>>
    /\ results = <<>>
    /\ mutex = Free
    /\ mainPc = "idle"
    /\ spawned = 0
    /\ joined = 0
    /\ wpc = [w \in Workers |-> "idle"]
    /\ widx = [w \in Workers |-> 1]
    /\ pdf_files = [w \in Workers |-> <<>>]
    /\ zip = FALSE
    /\ printed = <<>>
    /\ archived = <<>>

ArgsIdle ==
    /\ args = <<>>
    /\ argi = 1
    /\ argPc = "idle"
    /\ home_dir = <<>>

Init == InitCli /\ TextIdle /\ ArgsIdle /\ GuiIdle /\ ZipIdle /\ ViewIdle

Next ==
    \/ main
    \/ \E w \in Workers : search_pdf_files(w)

Spec == Init /\ [][Next]_vars

\* The run under a scheduler that lets every thread that can step do so.
SpecFair ==
    /\ Spec
    /\ WF_vars(main)
    /\ \A w \in Workers : WF_vars(search_pdf_files(w))

\* search_in_text is entered with a non-empty query only: both triggers of
\* perform_search require it (search_panel.rs:121, 317).
InitText ==
    /\ CliIdle
    /\ ArgsIdle
    /\ GuiIdle
    /\ ZipIdle
    /\ ViewIdle
    /\ text \in Texts
    /\ search_query \in Queries
    /\ case_sensitive \in BOOLEAN
    /\ tpc = "scan"
    /\ start = 0
    /\ matches = <<>>
    /\ dirFound = "none"

NextText ==
    \/ search_in_text
    \/ PushDocumentResult
    \/ gui_search_phrase_in_pdf

SpecText == InitText /\ [][NextText]_vars

(***************************************************************************)
(* Option parsing, main.rs:88-131.                                         *)
(***************************************************************************)
MaxArgs == 3
\* The words of a command line: the four options, and two other words that
\* serve as phrase, as directory and as unrecognized argument.
Tokens == {"-s", "-d", "-z", "-h", "A", "B"}
ArgLists == SeqsUpTo(Tokens, MaxArgs)

\* The rest of main's state while the options are parsed.
ParseRest == <<textVars, guiVars, zipVars, viewVars, fileKind, results, mutex, mainPc, spawned, joined,
               wpc, widx, pdf_files, printed, archived>>

\* main.rs:97-101.  args[i + 1] panics when -s is the last argument.
OptS ==
    /\ argPc = "parse"
    /\ argi <= Len(args)
    /\ args[argi] = "-s"
    /\ IF argi + 1 <= Len(args)
       THEN /\ search_phrase' = args[argi + 1]
            /\ argi' = argi + 2
            /\ argPc' = "parse"
       ELSE /\ argPc' = "panic"
            /\ UNCHANGED <<search_phrase, argi>>
    /\ UNCHANGED <<ParseRest, directories, zip, args, home_dir>>

\* main.rs:102-107.  args[i + 1] panics when -d is the last argument.
OptD ==
    /\ argPc = "parse"
    /\ argi <= Len(args)
    /\ args[argi] = "-d"
    /\ IF argi + 1 <= Len(args)
       THEN /\ directories' = Append(directories, args[argi + 1])
            /\ argi' = argi + 2
            /\ argPc' = "parse"
       ELSE /\ argPc' = "panic"
            /\ UNCHANGED <<directories, argi>>
    /\ UNCHANGED <<ParseRest, search_phrase, zip, args, home_dir>>

\* main.rs:108-112: zip = true; break.
OptZ ==
    /\ argPc = "parse"
    /\ argi <= Len(args)
    /\ args[argi] = "-z"
    /\ zip' = TRUE
    /\ argPc' = "defaults"
    /\ UNCHANGED <<ParseRest, search_phrase, directories, args, argi, home_dir>>

\* main.rs:113-116: print_help(); return.
OptH ==
    /\ argPc = "parse"
    /\ argi <= Len(args)
    /\ args[argi] = "-h"
    /\ argPc' = "exit"
    /\ UNCHANGED <<ParseRest, search_phrase, directories, zip, args, argi, home_dir>>

\* main.rs:117-120: "Invalid argument"; return.
OptInvalid ==
    /\ argPc = "parse"
    /\ argi <= Len(args)
    /\ args[argi] \notin {"-s", "-d", "-z", "-h"}
    /\ argPc' = "exit"
    /\ UNCHANGED <<ParseRest, search_phrase, directories, zip, args, argi, home_dir>>

\* main.rs:95: the loop ends when i reaches args.len().
ArgsEnd ==
    /\ argPc = "parse"
    /\ argi > Len(args)
    /\ argPc' = "defaults"
    /\ UNCHANGED <<ParseRest, search_phrase, directories, zip, args, argi, home_dir>>

\* main.rs:124-133: without a directory the home directory is the root, and
\* without a home directory main returns; else the search starts.
Defaults ==
    /\ argPc = "defaults"
    /\ IF directories # <<>>
       THEN argPc' = "search" /\ UNCHANGED directories
       ELSE IF home_dir # <<>>
       THEN argPc' = "search" /\ directories' = home_dir
       ELSE argPc' = "exit" /\ UNCHANGED directories
    /\ UNCHANGED <<ParseRest, search_phrase, zip, args, argi, home_dir>>

\* main.rs:88-93
InitArgs ==
    /\ TextIdle
    /\ GuiIdle
    /\ ZipIdle
    /\ ViewIdle
    /\ fileKind = [f \in Files |-> "other"]
    /\ results = <<>>
    /\ mutex = Free
    /\ mainPc = "idle"
    /\ spawned = 0
    /\ joined = 0
    /\ wpc = [w \in Workers |-> "idle"]
    /\ widx = [w \in Workers |-> 1]
    /\ pdf_files = [w \in Workers |-> <<>>]
    /\ printed = <<>>
    /\ archived = <<>>
    /\ search_phrase = ""
    /\ directories = <<>>
    /\ zip = FALSE
    /\ args \in ArgLists
    /\ argi = 1
    /\ argPc = "parse"
    /\ home_dir \in {<<>>, <<"HOME">>}

NextArgs ==
    \/ OptS
    \/ OptD
    \/ OptZ
    \/ OptH
    \/ OptInvalid
    \/ ArgsEnd
    \/ Defaults

SpecArgs == InitArgs /\ [][NextArgs]_vars

(***************************************************************************)
(* The directory search of the search panel: perform_search on the UI      *)
(* thread and the background thread it spawns (search_panel.rs:136-247,    *)
(* 454-487).  The file system is fileKind, the query is not empty (the     *)
(* search button is disabled otherwise, search_panel.rs:121, 317).         *)
(***************************************************************************)
GuiKinds == {"other", "hit", "miss", "unread"}
\* search_panel.rs:178-201: the SearchResult built for a matching file, with
\* one placeholder match at position 0.
PlaceholderResult(f) ==
    [file_path |-> f, match_count |-> 1,
     matches |-> <<[text |-> <<"Found occurrence in", f>>, position |-> 0]>>]
Paths(rs) == [k \in DOMAIN rs |-> rs[k].file_path]
GuiWalk == IF directory_path = NoPath THEN <<>> ELSE Walk(directory_path[1])

\* search_panel.rs:137-138, 159-206: set the flag, clear the old results,
\* make the shared Vec and spawn the thread; without a directory go to the
\* end of the function.
PerformSearchStart ==
    /\ gpc = "start"
    /\ is_searching' = TRUE
    /\ search_results' = <<>>
    /\ shared' = <<>>
    /\ IF directory_path = NoPath
       THEN gpc' = "return" /\ UNCHANGED gwpc
       ELSE gpc' = "sleep" /\ gwpc' = "walk"
    /\ UNCHANGED <<notGui, directory_path, create_zip, gmutex, gwidx,
                   matching_pdfs, pdf_paths, zipLog>>

\* search_panel.rs:209-215: the sleep is over, whatever the thread has done
\* by then; lock the shared Vec and move what it holds into search_results.
PollResults ==
    /\ gpc = "sleep"
    /\ gmutex = Free
    /\ gmutex' = ByMain
    /\ search_results' = search_results \o shared
    /\ shared' = <<>>
    /\ gpc' = "polled"
    /\ UNCHANGED <<notGui, directory_path, create_zip, is_searching, gwpc,
                   gwidx, matching_pdfs, pdf_paths, zipLog>>

ZipWanted == create_zip /\ search_results # <<>> /\ Len(search_query) > 0

\* search_panel.rs:218-220, 228-236: create_zip_with_results is entered and
\* collects the paths of search_results.
CreateZipCall ==
    /\ gpc = "polled"
    /\ ZipWanted
    /\ pdf_paths' = Paths(search_results)
    /\ gpc' = "zip"
    /\ UNCHANGED <<notGui, directory_path, create_zip, is_searching,
                   search_results, shared, gmutex, gwpc, gwidx, matching_pdfs,
                   zipLog>>

\* search_panel.rs:242-246: zip_files returns Ok or Err, and either is logged.
ZipOutcome ==
    /\ gpc = "zip"
    /\ \E ok \in BOOLEAN : zipLog' = IF ok THEN "created" ELSE "error"
    /\ gpc' = "return"
    /\ UNCHANGED <<notGui, directory_path, create_zip, is_searching,
                   search_results, shared, gmutex, gwpc, gwidx, matching_pdfs,
                   pdf_paths>>

\* search_panel.rs:218: no archive is asked for, or there is nothing to put in.
SkipZip ==
    /\ gpc = "polled"
    /\ ~ZipWanted
    /\ gpc' = "return"
    /\ UNCHANGED <<notGui, directory_path, create_zip, is_searching,
                   search_results, shared, gmutex, gwpc, gwidx, matching_pdfs,
                   pdf_paths, zipLog>>

\* search_panel.rs:221-225: the guard of the shared Vec is dropped and the
\* flag is cleared.
PerformSearchReturn ==
    /\ gpc = "return"
    /\ is_searching' = FALSE
    /\ gmutex' = IF gmutex = ByMain THEN Free ELSE gmutex
    /\ gpc' = "done"
    /\ UNCHANGED <<notGui, directory_path, create_zip, search_results, shared,
                   gwpc, gwidx, matching_pdfs, pdf_paths, zipLog>>

perform_search ==
    \/ PerformSearchStart
    \/ PollResults
    \/ CreateZipCall
    \/ ZipOutcome
    \/ SkipZip
    \/ PerformSearchReturn

\* search_panel.rs:458-474: one entry of the walk; a pdf is pushed when
\* search_phrase_in_pdf returns Ok(true), a failure is logged and skipped.
search_files_in_directory ==
    /\ gwpc = "walk"
    /\ gwidx <= Len(GuiWalk)
    /\ matching_pdfs' = IF fileKind[GuiWalk[gwidx]] = "hit"
                        THEN Append(matching_pdfs, GuiWalk[gwidx])
                        ELSE matching_pdfs
    /\ gwidx' = gwidx + 1
    /\ UNCHANGED <<notGui, directory_path, create_zip, is_searching,
                   search_results, shared, gmutex, gpc, gwpc, pdf_paths,
                   zipLog>>

\* search_panel.rs:204: search_results_clone.lock().unwrap(), once the walk
\* is over and one SearchResult per path is built (search_panel.rs:178-201).
StoreLock ==
    /\ gwpc = "walk"
    /\ gwidx > Len(GuiWalk)
    /\ gmutex = Free
    /\ gmutex' = ByWorker(1)
    /\ gwpc' = "store"
    /\ UNCHANGED <<notGui, directory_path, create_zip, is_searching,
                   search_results, shared, gpc, gwidx, matching_pdfs,
                   pdf_paths, zipLog>>

\* search_panel.rs:205-206: *search_results = results, and the closure ends.
StoreResults ==
    /\ gwpc = "store"
    /\ shared' = [k \in DOMAIN matching_pdfs |->
                      PlaceholderResult(matching_pdfs[k])]
    /\ gmutex' = Free
    /\ gwpc' = "done"
    /\ UNCHANGED <<notGui, directory_path, create_zip, is_searching,
                   search_results, gpc, gwidx, matching_pdfs, pdf_paths,
                   zipLog>>

\* perform_search is entered in directory scope with a directory chosen and
\* a query (the button and the Enter key require both, search_panel.rs:
\* 121-123, 317-319), with the results of an earlier search still listed or
\* with none.
GuiStart(kinds) ==
    /\ ArgsIdle
    /\ ZipIdle
    /\ ViewIdle
    /\ fileKind \in [Files -> kinds]
    /\ search_phrase = ""
    /\ directories = <<>>
    /\ results = <<>>
    /\ mutex = Free
    /\ mainPc = "idle"
    /\ spawned = 0
    /\ joined = 0
    /\ wpc = [w \in Workers |-> "idle"]
    /\ widx = [w \in Workers |-> 1]
    /\ pdf_files = [w \in Workers |-> <<>>]
    /\ zip = FALSE
    /\ printed = <<>>
    /\ archived = <<>>
    /\ text = <<>>
    /\ search_query = <<"a">>
    /\ case_sensitive = FALSE
    /\ tpc = "idle"
    /\ start = 0
    /\ matches = <<>>
    /\ dirFound = "none"
    /\ directory_path \in {<<d>> : d \in Dirs}
    /\ create_zip \in BOOLEAN
    /\ is_searching = FALSE
    /\ search_results \in {<<>>, <<PlaceholderResult("B/f3")>>}
    /\ shared = <<>>
    /\ gmutex = Free
    /\ gpc = "start"
    /\ gwpc = "idle"
    /\ gwidx = 1
    /\ matching_pdfs = <<>>
    /\ pdf_paths = <<>>
    /\ zipLog = "none"

InitGui == GuiStart(GuiKinds)

NextGui ==
    \/ perform_search
    \/ search_files_in_directory
    \/ StoreLock
    \/ StoreResults

SpecGui == InitGui /\ [][NextGui]_vars

\* One search of the panel, of the current document or of a directory.
InitPanel == InitText \/ InitGui
NextPanel == NextText \/ NextGui
SpecPanel == InitPanel /\ [][NextPanel]_vars

\* Either program runs: the command line search or the panel's search.
InitSearch == Init \/ InitGui
NextSearch == Next \/ NextGui
SpecSearch == InitSearch /\ [][NextSearch]_vars

\* Either program's search of one root, in a file system where the walk
\* may meet entries it cannot read.
InitWalk ==
    \/ CliStart(WalkKinds, {<<d>> : d \in Dirs}) /\ TextIdle /\ ArgsIdle
          /\ GuiIdle /\ ZipIdle /\ ViewIdle
    \/ GuiStart(GuiKinds \cup {"walkerr"})
SpecWalk == InitWalk /\ [][NextSearch]_vars

(***************************************************************************)
(* zip_files (main.rs:64-85).  A path is the sequence of its components;   *)
(* two of the three paths share their base name.                           *)
(***************************************************************************)
MaxFiles == 2
ZipPaths == {<<"A", "x.pdf">>, <<"B", "x.pdf">>, <<"A", "y.pdf">>}
Contents == {<<0>>, <<1, 2>>}
FileLists == SeqsUpTo(ZipPaths, MaxFiles)

\* main.rs:70: Path::file_name, the last component of the path.
EntryNameFullPath(path) == path
file_name(path) == <<path[Len(path)]>>

\* main.rs:71: every file is read into a new, empty Vec.  The mutant keeps
\* the Vec of the previous file.
FileContentKept(previous) == previous
FileContentNew(previous) == <<>>

\* The values zip_files returns (NoReturn before it returns).  An Err made
\* by ? from an io::Error is ZipError::Io(e): it carries the kind of the
\* failure and names no path.
Ok == [tag |-> "Ok", variant |-> "none", paths |-> {}]
ErrIo == [tag |-> "Err", variant |-> "Io", paths |-> {}]

\* main.rs:65-67: File::create(&path).unwrap() and ZipWriter::new.
ZipCreate ==
    /\ zpc = "create"
    /\ zpc' = IF creatable THEN "loop" ELSE "panic"
    /\ UNCHANGED <<notZip, files, readable, content, creatable, zidx, entries,
                   finished, zret>>

LastContent == IF entries = <<>> THEN <<>> ELSE entries[Len(entries)].data

\* main.rs:69-81: one file.  File::open(..)? and read_to_end(..)? return the
\* error at once; otherwise start_file opens an entry under the base name
\* and write_all writes the bytes read into it.
ZipEntry ==
    /\ zpc = "loop"
    /\ zidx <= Len(files)
    /\ IF readable[files[zidx]] = "ok"
       THEN /\ entries' = Append(entries,
                    [name |-> file_name(files[zidx]),
                     data |-> FileContentNew(LastContent) \o content[files[zidx]]])
            /\ zidx' = zidx + 1
            /\ UNCHANGED <<zpc, zret>>
       ELSE /\ zret' = ErrIo
            /\ zpc' = "err"
            /\ UNCHANGED <<entries, zidx>>
    /\ UNCHANGED <<notZip, files, readable, content, creatable, finished>>

\* main.rs:83-84: zip.finish()? and Ok(()).
ZipFinish ==
    /\ zpc = "loop"
    /\ zidx > Len(files)
    /\ finished' = TRUE
    /\ zret' = Ok
    /\ zpc' = "ok"
    /\ UNCHANGED <<notZip, files, readable, content, creatable, zidx, entries>>

zip_files ==
    \/ ZipCreate
    \/ ZipEntry
    \/ ZipFinish

InitZip ==
    /\ CliIdle
    /\ TextIdle
    /\ ArgsIdle
    /\ GuiIdle
    /\ ViewIdle
    /\ files \in FileLists
    /\ readable \in [ZipPaths -> {"ok", "noopen", "noread"}]
    /\ content \in [ZipPaths -> Contents]
    /\ creatable \in BOOLEAN
    /\ zpc = "create"
    /\ zidx = 1
    /\ entries = <<>>
    /\ finished = FALSE
    /\ zret = NoReturn

SpecZip == InitZip /\ [][zip_files]_vars

(***************************************************************************)
(* PdfViewer (gui/pdf_viewer.rs): load_pdf and the thread it spawns,       *)
(* process_loaded_document, and the Previous and Next buttons of show.     *)
(* A document, a Poppler document and a text are named by the file they    *)
(* were read from.                                                         *)
(***************************************************************************)
MaxPages == 3
PdfFiles == {"P", "Q"}
\* What a pdf file is:
\*   good       lopdf, pdf_extract and Poppler all read it
\*   notext     lopdf and Poppler read it, extract_text_from_pdf fails
\*   nopoppler  lopdf and pdf_extract read it, PopplerDocument::from_file fails
\*   bad        Document::load fails (and so does Poppler)
PdfKinds == {"good", "notext", "nopoppler", "bad"}
\* The number of pages of each file: P is long, Q has one page.
NumPages(f) == IF f = "P" THEN MaxPages ELSE 1
PopplerOpens(f) == pdfs[f] \in {"good", "notext"}
ViewModes == {"Rendered", "TextOnly"}

\* pdf_viewer.rs:74-123: load_pdf(path) resets the viewer and spawns the
\* load thread.
load_pdf(f) ==
    /\ loads < MaxLoads
    /\ loads' = loads + 1
    /\ loading' = TRUE
    /\ current_pdf_path' = f
    /\ document' = NoDoc
    /\ poppler_document' = NoDoc
    /\ current_page' = 0
    /\ total_pages' = 0
    /\ pages' = {}
    /\ page_textures' = {}
    /\ lfile' = [lfile EXCEPT ![loads + 1] = f]
    /\ lpc' = [lpc EXCEPT ![loads + 1] = "load"]
    /\ UNCHANGED <<notView, pdfs, text_data, document_loaded, view_mode>>

\* pdf_viewer.rs:96-120: Document::load(&path_clone); on Err the thread logs
\* and ends.
ThreadLoad(t) ==
    /\ lpc[t] = "load"
    /\ lpc' = [lpc EXCEPT ![t] = IF pdfs[lfile[t]] = "bad" THEN "failed"
                                 ELSE "extract"]
    /\ UNCHANGED <<notView, pdfs, current_pdf_path, document, poppler_document,
                   current_page, total_pages, pages, page_textures, text_data,
                   loading, document_loaded, view_mode, loads, lfile>>

\* pdf_viewer.rs:103-111: extract_text_from_pdf; Ok replaces text_data, Err
\* is logged and text_data keeps what it held.
ThreadExtract(t) ==
    /\ lpc[t] = "extract"
    /\ text_data' = IF pdfs[lfile[t]] = "notext" THEN text_data ELSE lfile[t]
    /\ lpc' = [lpc EXCEPT ![t] = "store"]
    /\ UNCHANGED <<notView, pdfs, current_pdf_path, document, poppler_document,
                   current_page, total_pages, pages, page_textures, loading,
                   document_loaded, view_mode, loads, lfile>>

\* pdf_viewer.rs:113-116: *document_loaded = Some(doc).
ThreadStore(t) ==
    /\ lpc[t] = "store"
    /\ document_loaded' = lfile[t]
    /\ lpc' = [lpc EXCEPT ![t] = "done"]
    /\ UNCHANGED <<notView, pdfs, current_pdf_path, document, poppler_document,
                   current_page, total_pages, pages, page_textures, text_data,
                   loading, view_mode, loads, lfile>>

\* pdf_viewer.rs:126-190, called by every show: while loading, take the
\* document out of the slot if there is one and adopt it; Poppler opens the
\* file of current_pdf_path and gives the page count, else lopdf's count of
\* the adopted document is used; page 0 is rendered or its text loaded.
process_loaded_document ==
    /\ loading
    /\ document_loaded # NoDoc
    /\ document' = document_loaded
    /\ document_loaded' = NoDoc
    /\ IF PopplerOpens(current_pdf_path)
       THEN /\ total_pages' = NumPages(current_pdf_path)
            /\ poppler_document' = current_pdf_path
            /\ page_textures' = page_textures \cup {0}
       ELSE /\ total_pages' = NumPages(document_loaded)
            /\ UNCHANGED <<poppler_document, page_textures>>
    /\ pages' = pages \cup {0}
    /\ loading' = FALSE
    /\ UNCHANGED <<notView, pdfs, current_pdf_path, current_page, text_data,
                   view_mode, loads, lfile, lpc>>

\* pdf_viewer.rs:417-421, 431-435: after a page change the page is rendered
\* (which also stores its text) or, without Poppler, its text is loaded.
TexturesAfter(p) ==
    IF view_mode = "Rendered" /\ poppler_document # NoDoc
    THEN page_textures \cup {p} ELSE page_textures
PagesAfter(p) ==
    IF (view_mode = "Rendered" /\ poppler_document # NoDoc)
        \/ (poppler_document = NoDoc /\ document # NoDoc)
    THEN pages \cup {p} ELSE pages

\* pdf_viewer.rs:415-422: the Previous button, enabled when current_page > 0.
PreviousPage ==
    /\ current_page > 0
    /\ current_page' = saturating_sub(current_page, 1)
    /\ page_textures' = TexturesAfter(current_page')
    /\ pages' = PagesAfter(current_page')
    /\ UNCHANGED <<notView, pdfs, current_pdf_path, document, poppler_document,
                   total_pages, text_data, loading, document_loaded, view_mode,
                   loads, lfile, lpc>>

\* The mutant has the Next button always enabled and does not clamp.
NextPageUnguarded ==
    /\ current_page < MaxPages + 1
    /\ current_page' = current_page + 1
    /\ page_textures' = TexturesAfter(current_page')
    /\ pages' = PagesAfter(current_page')
    /\ UNCHANGED <<notView, pdfs, current_pdf_path, document, poppler_document,
                   total_pages, text_data, loading, document_loaded, view_mode,
                   loads, lfile, lpc>>

\* pdf_viewer.rs:428-436: the Next button, enabled when current_page is
\* below total_pages.saturating_sub(1).
NextPage ==
    /\ current_page < saturating_sub(total_pages, 1)
    /\ current_page' = Min(current_page + 1, saturating_sub(total_pages, 1))
    /\ page_textures' = TexturesAfter(current_page')
    /\ pages' = PagesAfter(current_page')
    /\ UNCHANGED <<notView, pdfs, current_pdf_path, document, poppler_document,
                   total_pages, text_data, loading, document_loaded, view_mode,
                   loads, lfile, lpc>>

\* pdf_viewer.rs:383-436: show.
show ==
    \/ process_loaded_document
    \/ PreviousPage
    \/ NextPage

LoadThread(t) ==
    \/ ThreadLoad(t)
    \/ ThreadExtract(t)
    \/ ThreadStore(t)

\* A new viewer, the files on disk being of any kind.
InitView ==
    /\ CliIdle
    /\ TextIdle
    /\ ArgsIdle
    /\ GuiIdle
    /\ ZipIdle
    /\ pdfs \in [PdfFiles -> PdfKinds]
    /\ current_pdf_path = NoDoc
    /\ document = NoDoc
    /\ poppler_document = NoDoc
    /\ current_page = 0
    /\ total_pages = 0
    /\ pages = {}
    /\ page_textures = {}
    /\ text_data = NoDoc
    /\ loading = FALSE
    /\ document_loaded = NoDoc
    /\ view_mode \in ViewModes
    /\ loads = 0
    /\ lfile = [t \in Loads |-> NoDoc]
    /\ lpc = [t \in Loads |-> "idle"]

NextView ==
    \/ \E f \in PdfFiles : load_pdf(f)
    \/ \E t \in Loads : LoadThread(t)
    \/ show

SpecView == InitView /\ [][NextView]_vars

\* Every load thread is scheduled and show is called again and again.
SpecViewFair ==
    /\ SpecView
    /\ \A t \in Loads : WF_vars(LoadThread(t))
    /\ WF_vars(process_loaded_document)

(***************************************************************************)
(* Properties of the command line run, checked under Spec.                 *)
(***************************************************************************)
AfterJoin == mainPc \in {"print", "zip", "zipPanic", "done"}
RootIndexes == DOMAIN directories

\* What search_pdf_files hands off for one root when that root is searched
\* alone: nothing when the walk meets a pdf whose path is not UTF-8 under a
\* non-empty phrase (the thread panics), else every candidate under the root
\* that the phrase selects.
Selected(f) == IsCandidate(f) /\ (search_phrase = "" \/ fileKind[f] = "hit")
AlonePanics(root) ==
    search_phrase # "" /\ \E f \in Under(root) : fileKind[f] = "badname"
AloneResult(root) ==
    IF AlonePanics(root) THEN {} ELSE {f \in Under(root) : Selected(f)}

Candidates(root) == {f \in Under(root) : IsCandidate(f)}
DisjointRoots ==
    \A i, j \in RootIndexes :
        i # j => Candidates(directories[i]) \cap Candidates(directories[j]) = {}

\* C1: for roots whose candidate files are disjoint, the aggregate main reads
\* after joining holds each file of the union of the roots' own results
\* exactly once, and no other file, whatever the interleaving.
C1_AggregateIsUnion ==
    (DisjointRoots /\ AfterJoin) =>
        \A f \in Files :
            Count(f, results) =
                IF \E i \in RootIndexes : f \in AloneResult(directories[i])
                THEN 1 ELSE 0

C1_Witness ==
    /\ mainPc = "done"
    /\ DisjointRoots
    /\ Len(directories) = 2
    /\ pdf_files[1] # <<>>
    /\ pdf_files[2] # <<>>
    /\ Len(results) = 2

RECURSIVE HandedOff(_, _)
\* How often f occurs in the lists of the workers 1..w that returned.
HandedOff(f, w) ==
    IF w = 0 THEN 0
    ELSE HandedOff(f, w - 1)
         + (IF wpc[w] = "done" THEN Count(f, pdf_files[w]) ELSE 0)

\* C2: main reads the aggregate only after every spawned worker has ended and
\* every worker that returned has appended its list; from then on the
\* aggregate does not change.
C2_JoinBarrier ==
    /\ [](AfterJoin =>
            /\ \A w \in RootIndexes : Terminated(w)
            /\ \A f \in Files :
                  Count(f, results) = HandedOff(f, Len(directories)))
    /\ [][AfterJoin => results' = results]_vars

C2_Witness ==
    /\ mainPc = "print"
    /\ Len(directories) = 2
    /\ wpc[1] = "done"
    /\ wpc[2] = "done"
    /\ Len(results) >= 2

\* A candidate whose read or text extraction fails under a non-empty phrase.
FailsToRead(f) == fileKind[f] \in {"unread", "badname"}

\* C11 (as claimed): when a candidate file under a root fails to read, only
\* that file is left out: every file under that root that contains the
\* phrase, walked before or after the failing one, is in the final result.
C11_FailingFileOnlyIsSkipped ==
    (search_phrase # "" /\ mainPc = "done") =>
        \A i \in RootIndexes :
            (\E g \in Under(directories[i]) : FailsToRead(g)) =>
                \A f \in Under(directories[i]) :
                    fileKind[f] = "hit" => f \in Range(results)

\* The roots whose worker thread ended by a panic, handing off nothing.
FailedWorkers == {w \in RootIndexes : wpc[w] = "panicked"}
MainEnded == mainPc \in {"done", "zipPanic"}

\* C12: a worker that fails, by a root that cannot be walked or by a panic
\* that ends its thread, contributes nothing and stops no one: main is never
\* stuck before it ends, and what it reports holds every file once per root
\* whose own search yields it, the failed roots yielding none.
C12_FailedWorkerContributesNothing ==
    /\ ~MainEnded => ENABLED Next
    /\ AfterJoin =>
          /\ \A w \in FailedWorkers : AloneResult(directories[w]) = {}
          /\ \A f \in Files :
                Count(f, results) =
                    Cardinality({i \in RootIndexes :
                                    f \in AloneResult(directories[i])})

C12_Witness ==
    /\ mainPc = "done"
    /\ printed = results
    /\ Len(directories) = 2
    /\ wpc[1] = "panicked"
    /\ pdf_files[1] # <<>>
    /\ wpc[2] = "done"
    /\ results = pdf_files[2]
    /\ results # <<>>

C12_WitnessMissingRoot ==
    /\ mainPc = "done"
    /\ directories = <<"X", "B">>
    /\ results = <<"B/f3">>

InAppend == {w \in Workers : wpc[w] = "extend"}

\* C23: a worker holds the lock exactly while it appends, after its walk is
\* over, and at most one worker is appending; a step that changes a local
\* list leaves the aggregate and the lock alone; the aggregate changes only
\* by one worker appending its whole local list, on the step that ends it.
C23_LockCoversOnlyTheAppend ==
    /\ [](\A w \in Workers : mutex = ByWorker(w) <=> w \in InAppend)
    /\ [](Cardinality(InAppend) <= 1)
    /\ [](\A w \in InAppend : widx[w] > Len(Walk(directories[w])))
    /\ [][pdf_files' # pdf_files => results' = results /\ mutex' = mutex]_vars
    /\ [][results' # results =>
            \E w \in InAppend :
                /\ wpc'[w] = "done"
                /\ results' = results \o pdf_files[w]]_vars

C23_Witness ==
    /\ wpc[1] = "extend"
    /\ pdf_files[1] # <<>>
    /\ Len(directories) = 2
    /\ wpc[2] = "walk"
    /\ widx[2] > Len(Walk(directories[2]))
    /\ pdf_files[2] # <<>>

\* C21 (as claimed): under fair scheduling every worker that was started
\* finishes its walk, appends and releases the lock, and main passes the
\* join barrier.
C21_SearchRunsToCompletion ==
    /\ \A w \in Workers : (wpc[w] = "walk") ~> (wpc[w] = "done" /\ mutex # ByWorker(w))
    /\ <>AfterJoin

\* The part of C21 that holds: every worker ends, by returning or by a
\* panic, no worker waits for the lock for ever, and main ends.
EveryThreadEnds ==
    /\ \A w \in Workers : (wpc[w] = "walk") ~> Terminated(w)
    /\ <>AfterJoin
    /\ <>MainEnded

\* C3 (as claimed): after a run the aggregate holds at most one entry per
\* path, also when the roots overlap.
C3_NoDuplicatePaths ==
    mainPc = "done" => \A f \in Files : Count(f, results) <= 1

\* C4: with an empty phrase every worker reports each candidate under its
\* root exactly once, readable or not, and nothing else: the set of reported
\* paths is the set of candidates under the roots.
C4_EmptyPhraseReportsCandidates ==
    (search_phrase = "" /\ AfterJoin) =>
        \A f \in Files :
            Count(f, results) =
                Cardinality({i \in RootIndexes : f \in Candidates(directories[i])})

C4_Witness ==
    /\ mainPc = "done"
    /\ search_phrase = ""
    /\ \E f, g \in Range(results) :
          /\ fileKind[f] = "unread"
          /\ fileKind[g] = "badname"
    /\ \E f \in Files : fileKind[f] = "other" /\ f \notin Range(results)

\* C5 (as claimed): with a non-empty phrase a file is reported if and only
\* if it is a candidate under a root, its text could be read, and the text
\* contains the phrase.
C5_ReportedIffContains ==
    (search_phrase # "" /\ mainPc = "done") =>
        \A f \in Files :
            f \in Range(results) <=>
                /\ \E i \in RootIndexes : f \in Under(directories[i])
                /\ fileKind[f] = "hit"

(***************************************************************************)
(* Properties of the archive step of either program, checked under         *)
(* SpecSearch.                                                             *)
(***************************************************************************)
CliArchiving == mainPc \in {"zip", "zipPanic"} \/ (mainPc = "done" /\ zip)
GuiArchiving == gpc = "zip" \/ zipLog # "none"
\* What the walk of the panel's directory finds, in walk order.
IsHit(f) == fileKind[f] = "hit"
GuiMatches == SelectSeq(GuiWalk, IsHit)

\* C13: the archive step runs only when every search worker has ended and
\* has handed off what it found, and the paths it archives are the whole
\* result: in main after the joins, in the panel only when the background
\* thread has stored its list.
C13_ArchiveAfterSearchDone ==
    /\ CliArchiving =>
          /\ \A w \in RootIndexes : Terminated(w)
          /\ \A f \in Files :
                Count(f, results) = HandedOff(f, Len(directories))
    /\ (mainPc = "done" /\ zip) => archived = results
    /\ GuiArchiving =>
          /\ gwpc = "done"
          /\ pdf_paths = GuiMatches

C13_Witness ==
    /\ mainPc = "done"
    /\ zip
    /\ Len(directories) = 2
    /\ Len(archived) >= 2
    /\ archived = results

C13_WitnessGui ==
    /\ zipLog = "created"
    /\ pdf_paths = <<"A/f1", "A/S/f2">>

\* C15: when the archive step is attempted every result is already
\* reported, a failure of the step ends it in an outcome of its own (main
\* panics, the panel logs the error) and leaves the reported results as
\* they are.
C15_ArchiveFailureKeepsResults ==
    /\ CliArchiving => printed = results
    /\ mainPc = "zipPanic" => archived = <<>>
    /\ (mainPc = "done" /\ zip) => archived = results
    /\ GuiArchiving =>
          Paths(search_results) = pdf_paths /\ search_results # <<>>
    /\ zipLog = "error" => gpc \in {"return", "done"}

C15_Witness ==
    /\ mainPc = "zipPanic"
    /\ Len(printed) >= 2
    /\ \A f \in Range(results) : Openable(f)

C15_WitnessGui ==
    /\ zipLog = "error"
    /\ gpc = "done"
    /\ Len(search_results) = 2

(***************************************************************************)
(* Properties of the directory walk of either program, checked under       *)
(* SpecWalk.                                                               *)
(***************************************************************************)
HasWalkErr(root) == \E f \in Under(root) : fileKind[f] = "walkerr"

\* C22: an entry the walk cannot read is skipped and the walk goes on: what
\* a worker hands off is what its root yields without that entry, every
\* readable pdf after it included, and no worker ends by a panic because
\* of it; the same for the thread of the panel's directory search.
C22_WalkErrorIsSkipped ==
    /\ AfterJoin =>
          /\ \A f \in Files :
                Count(f, results) =
                    Cardinality({i \in RootIndexes :
                                    f \in AloneResult(directories[i])})
          /\ \A w \in RootIndexes :
                wpc[w] = "panicked" => AlonePanics(directories[w])
    /\ gwpc \in {"store", "done"} => matching_pdfs = GuiMatches

C22_Witness ==
    /\ mainPc = "done"
    /\ directories = <<"A">>
    /\ search_phrase # ""
    /\ fileKind["A/f1"] = "walkerr"
    /\ wpc[1] = "done"
    /\ results = <<"A/S/f2">>

C22_WitnessGui ==
    /\ gwpc = "done"
    /\ directory_path = <<"A">>
    /\ fileKind["A/f1"] = "walkerr"
    /\ matching_pdfs = <<"A/S/f2">>

(***************************************************************************)
(* Properties of the panel's searches, checked under SpecGui and SpecPanel.*)
(***************************************************************************)
\* C24 (as claimed): when perform_search has finished a directory search,
\* search_results holds every match its background thread finds, however
\* long the thread takes.
C24_CompletionIsExact ==
    gpc = "done" =>
        /\ ~is_searching
        /\ Paths(search_results) = GuiMatches

WellFormed(r) == r.matches # <<>> /\ Len(r.matches) = r.match_count

\* C25: every entry of search_results, and of the list the background
\* thread stores, has at least one match and a match_count equal to the
\* number of its matches.
C25_ResultsHaveTheirMatches ==
    /\ \A k \in DOMAIN search_results : WellFormed(search_results[k])
    /\ \A k \in DOMAIN shared : WellFormed(shared[k])

C25_Witness ==
    /\ tpc = "returned"
    /\ Len(search_results) = 1
    /\ search_results[1].match_count = 2
    /\ Len(matches) = 2

C25_WitnessNoMatch ==
    /\ tpc = "returned"
    /\ matches = <<>>
    /\ search_results = <<>>

C25_WitnessGui ==
    /\ gpc = "done"
    /\ Len(search_results) = 2
    /\ search_results[2].match_count = 1

(***************************************************************************)
(* Properties of zip_files, checked under SpecZip.                         *)
(***************************************************************************)
\* C14 (as claimed): when an input file cannot be opened or read, zip_files
\* returns an error that identifies that path, having written no entry for
\* it or for a later path and without finishing the archive.
C14_ErrorNamesOffendingPath ==
    zpc = "err" =>
        /\ zret.tag = "Err"
        /\ files[zidx] \in zret.paths
        /\ Len(entries) = zidx - 1
        /\ ~finished

\* The part of C14 that holds: the call stops at the first file that cannot
\* be opened or read, with one entry for each file before it.
StopsAtFirstFailure ==
    zpc = "err" =>
        /\ zret.tag = "Err"
        /\ readable[files[zidx]] # "ok"
        /\ \A k \in 1..(zidx - 1) : readable[files[k]] = "ok"
        /\ Len(entries) = zidx - 1
        /\ ~finished

BaseName(path) == <<path[Len(path)]>>

\* C16: a successful call leaves one entry per input path, in input order,
\* each named by the last component of its path, so two paths with the same
\* base name give two entries of the same name.
C16_OneEntryPerPathByBaseName ==
    zpc = "ok" =>
        /\ Len(entries) = Len(files)
        /\ \A k \in DOMAIN files : entries[k].name = BaseName(files[k])

C16_Witness ==
    /\ zpc = "ok"
    /\ Len(files) = 2
    /\ files[1] # files[2]
    /\ entries[1].name = entries[2].name

Finished == tpc \in {"done", "panic"}

RECURSIVE GreedyCount(_, _, _)
\* The number of occurrences of needle in hay counted left to right from
\* byte p, each occurrence consuming its own length.
GreedyCount(hay, needle, p) ==
    IF p + Len(needle) > Len(hay) THEN 0
    ELSE IF StartsAt(hay, needle, p)
         THEN 1 + GreedyCount(hay, needle, p + Len(needle))
         ELSE GreedyCount(hay, needle, p + 1)

\* C6 (as claimed): when the phrase occurs k times in the text, counted
\* greedily without overlap under the case rule, search_in_text ends by
\* returning exactly k matches.
C6_ReturnsKMatches ==
    Finished =>
        /\ tpc = "done"
        /\ Len(matches) = GreedyCount(SearchText, Query, 0)

EqualUnderCase(s, t) ==
    IF case_sensitive THEN s = t ELSE to_lowercase(s) = to_lowercase(t)

\* Byte offset p starts, in the original text, a run of whole characters that
\* is as long as the phrase in bytes and equals it under the case rule.
OccurrenceAt(p) ==
    \E j \in 0..Len(text) :
        \E n \in 0..Min(Len(text) - j, Len(Bytes(search_query))) :
            /\ Len(Bytes(SubSeq(text, 1, j))) = p
            /\ Len(Bytes(SubSeq(text, j + 1, j + n))) = Len(Bytes(search_query))
            /\ EqualUnderCase(SubSeq(text, j + 1, j + n), search_query)

\* C7 (as claimed): every reported position indexes the original text, and
\* the phrase-long substring of the original text there equals the phrase
\* under the case rule.
C7_PositionsIndexOriginal ==
    \A i \in DOMAIN matches : OccurrenceAt(matches[i].position)

\* C8: the matches are in strictly increasing offset order and do not
\* overlap: each offset is at least the previous offset plus the length of
\* the query as searched for (folded when case is ignored).
C8_MatchesOrdered ==
    \A i \in DOMAIN matches :
        i > 1 =>
            /\ matches[i].position > matches[i - 1].position
            /\ matches[i].position >= matches[i - 1].position + Len(Query)

C8_Witness ==
    /\ tpc = "done"
    /\ Len(matches) >= 2
    /\ Len(Query) >= 2

\* C9 (as claimed): computing a context window never faults, and every
\* window lies within the text on character boundaries.
C9_WindowsSafe == tpc # "panic"

\* Some run of characters of the text equals the phrase up to letter case.
OccursIgnoringCase ==
    \E j \in 0..Len(text) - Len(search_query) :
        \A k \in 1..Len(search_query) : Lower(text[j + k]) = Lower(search_query[k])

\* C10 (as claimed): with case_sensitive false an occurrence that differs
\* from the phrase only in letter case is reported by the current-document
\* search and by the directory search; with case_sensitive true only
\* exact-case occurrences are reported.
C10_CaseRuleOnEveryPath ==
    /\ (~case_sensitive /\ OccursIgnoringCase) =>
          /\ tpc = "done" => matches # <<>>
          /\ dirFound # "none" => dirFound = "true"
    /\ (case_sensitive /\ ~Contains(Bytes(text), Bytes(search_query))) =>
          /\ matches = <<>>
          /\ dirFound # "true"

\* C26: search_in_text is entered with a non-empty query only, and every
\* pass of its loop either ends the call or moves the scan position forward
\* by at least one byte, never past the end of the text searched: the loop
\* makes at most Len(SearchText) passes.
C26_SearchInTextTerminates ==
    /\ [](tpc = "scan" => Len(Query) >= 1 /\ start <= Len(SearchText))
    /\ [][tpc = "scan" =>
            \/ tpc' \in {"done", "panic"}
            \/ tpc' = "scan" /\ start' >= start + 1]_<<tpc, start, matches>>

C26_Witness ==
    /\ tpc = "done"
    /\ Len(matches) >= 2
    /\ start = Len(SearchText)

(***************************************************************************)
(* Properties of option parsing, checked under SpecArgs.                   *)
(***************************************************************************)
RECURSIVE OptionsFrom(_)
\* The positions of the argument list that hold an option rather than the
\* value of a preceding -s or -d, reading the whole list.
OptionsFrom(k) ==
    IF k > Len(args) THEN {}
    ELSE {k} \cup OptionsFrom(IF args[k] \in {"-s", "-d"} THEN k + 2 ELSE k + 1)
Options == OptionsFrom(1)

RECURSIVE ValuesFrom(_, _)
\* The values of every option opt of the list, in order.
ValuesFrom(opt, k) ==
    IF k > Len(args) THEN <<>>
    ELSE (IF k \in Options /\ args[k] = opt /\ k + 1 <= Len(args)
          THEN <<args[k + 1]>> ELSE <<>>) \o ValuesFrom(opt, k + 1)
Last(s, default) == IF s = <<>> THEN default ELSE s[Len(s)]

\* C18 (as claimed): a run whose argument list holds -h or an unrecognized
\* argument ends before any search work begins.
C18_HelpOrInvalidNeverSearches ==
    (\E k \in Options : args[k] \notin {"-s", "-d", "-z"}) => argPc # "search"

\* C19 (as claimed): the roots of a run are the values of all -d options of
\* the argument list, in order, wherever they stand; without any -d the one
\* root is the home directory.
C19_RootsAreAllDValues ==
    argPc = "search" =>
        directories = IF ValuesFrom("-d", 1) = <<>> THEN home_dir
                      ELSE ValuesFrom("-d", 1)

\* C20 (as claimed): the archive is requested exactly when -z is among the
\* arguments, and the search it archives is the one the whole argument list
\* configures: the -s phrase and the -d roots count wherever -z stands.
C20_ZipUsesWholeArgumentList ==
    argPc = "search" =>
        /\ zip = (\E k \in Options : args[k] = "-z")
        /\ search_phrase = Last(ValuesFrom("-s", 1), "")
        /\ directories = IF ValuesFrom("-d", 1) = <<>> THEN home_dir
                         ELSE ValuesFrom("-d", 1)

\* C30 (as claimed): for every argument list the option loop ends without
\* reading an index at or past the end of the list, also when -s or -d is
\* the last argument; such a list ends the run as a configuration error.
C30_NeverReadsPastTheEnd ==
    /\ argPc # "panic"
    /\ argPc = "parse" => argi <= Len(args) + 1
    /\ (Len(args) > 0 /\ args[Len(args)] \in {"-s", "-d"}
          /\ Len(args) \in Options /\ argPc \notin {"parse", "defaults"})
            => argPc = "exit"

(***************************************************************************)
(* Properties of the viewer, checked under SpecView and SpecViewFair.      *)
(***************************************************************************)
\* C27 (as claimed): whenever the viewer has finished loading, the document
\* it adopted and the text that text() returns are those of the file named
\* by current_pdf_path; when the text of that file could not be extracted
\* the text is at least not that of another file.
C27_AdoptedBelongsToCurrentPath ==
    (~loading /\ document # NoDoc) =>
        /\ document = current_pdf_path
        /\ \/ text_data = current_pdf_path
           \/ pdfs[current_pdf_path] = "notext" /\ text_data = NoDoc

\* C28 (as claimed): after every load_pdf call the viewer eventually leaves
\* the loading state, whether the load succeeds or fails.
C28_LoadingEventuallyEnds == loading ~> ~loading

\* The part of C28 that holds: a load whose thread reads the file ends.
LoadingEndsWhenLoadSucceeds ==
    (loading /\ \A t \in Loads : lfile[t] # NoDoc => pdfs[lfile[t]] # "bad")
        ~> ~loading

Max(a, b) == IF a >= b THEN a ELSE b
IsLoadStep == loads' = loads + 1

\* C29: current_page never leaves the document, current_page <=
\* max(total_pages, 1) - 1; Previous moves one page down and not below 0,
\* Next one page up and not past the last page, and load_pdf leaves the
\* viewer at page 0 with both caches empty.
C29_CurrentPageWithinDocument ==
    /\ [](current_page >= 0 /\ current_page <= Max(total_pages, 1) - 1)
    /\ [][IsLoadStep =>
            current_page' = 0 /\ pages' = {} /\ page_textures' = {}]_vars
    /\ [][~IsLoadStep /\ current_page' # current_page =>
            /\ current_page' \in {current_page - 1, current_page + 1}
            /\ total_pages' = total_pages]_vars

C29_Witness ==
    /\ total_pages = MaxPages
    /\ current_page = MaxPages - 1
    /\ loads = 1
    /\ pages # {}

====
